---- MODULE Spec2Model ----
(***************************************************************************)
(* SofaBaton server (sofabaton-server.py): the SofaBatonServer object, its *)
(* operations, and the top-level driver main().                            *)
(*                                                                         *)
(* Two specifications are given over the same state:                       *)
(*   Spec     the driver main(): one session, the steps in program order,  *)
(*            with a KeyboardInterrupt possible at every step;             *)
(*   SpecObj  the object alone: its public operations called in any order. *)
(* The operating system and the hub are the environment: every socket call *)
(* takes one of the outcomes the call can have (success, timeout, error).  *)
(***************************************************************************)
EXTENDS Integers, Sequences, FiniteSets, TLC

VARIABLES
    server_sock,    \* self.server_sock: None or the id of a socket
    client_sock,    \* self.client_sock: None or the id of a socket
    authenticated,  \* self.authenticated
    running,        \* self.running
    hub_ip,         \* self.hub_ip: "" (falsy) or an address
    hub_id,         \* self.hub_id: the text given, as its characters
    listen_port,    \* self.listen_port
    listening,      \* OS: ids of the sockets that are bound and listening
    nextId,         \* OS: id the next created socket gets
    authedOn,       \* history: connections a valid auth response was read on
    io,             \* history: the socket calls made so far, in order
    ret,            \* result of the last operation
    lastOp,         \* name of the last operation
    failed,         \* history: some operation has returned False
    prev,           \* history: the object as the last operation found it
    pc,             \* main(): the step the driver is at ("api" under SpecObj)
    mode,           \* main(): 'send' or 'interactive'
    arg_device,     \* main(): device_id parsed from --device
    arg_button,     \* main(): button_code parsed from --button
    input,          \* the raw text or arguments last handed in by the caller
    n               \* number of commands / calls made so far (bounded)

vars == <<server_sock, client_sock, authenticated, running, hub_ip, hub_id,
          listen_port, listening, nextId, authedOn, io, ret, lastOp, failed,
          prev, pc, mode, arg_device, arg_button, input, n>>

obj == <<server_sock, client_sock, authenticated, running>>

\* what __init__ is given and no operation changes
config == <<hub_ip, hub_id, listen_port>>

-----------------------------------------------------------------------------
(* Bounds *)

\* interactive commands entered in one run of the driver
MaxCmds == 2
\* operations called on the object under SpecObj
MaxCalls == 5

-----------------------------------------------------------------------------
(* Values *)

None == 0

\* bytes([0xA5, 0x5A, 0x00, 0x01, 0x00])
AuthRequest == <<165, 90, 0, 1, 0>>

\* bytes([0xA5, 0x5A]), the header an auth response is compared with
MagicHeader == <<165, 90>>

\* Byte sequences the hub may answer the auth request with (recv never
\* returns more than 1024 bytes; these cover every branch of the test).
AuthReplies ==
    { <<165, 90, 0, 1, 0>>,        \* header, 5 bytes
      <<165, 90, 9, 9, 9, 9>>,     \* header, 6 bytes, other contents
      <<165, 90, 1, 2>>,           \* header, 4 bytes
      <<165, 90>>,                 \* header alone
      <<165>>,                     \* one byte
      <<165, 91, 0, 1, 0>>,        \* second byte differs
      <<164, 90, 0, 1, 0, 7>>,     \* first byte differs
      <<90, 165, 0, 1, 0>> }       \* header swapped

\* Byte sequences the hub may answer a command with.
CmdReplies == { <<165, 90, 2, 63, 0>>, <<1>> }

\* Device ids and button codes the caller passes.
Devices == {1, 2}
Buttons == {182, 185}

HubIps == {"", "192.168.40.65"}

\* A text is the sequence of its characters.
\* hub_id="03862a23", the default of __init__ and of --hub-id
DefaultHubId == <<"0", "3", "8", "6", "2", "a", "2", "3">>

\* listen_port=8002, the default of __init__ and of --port
DefaultPort == 8002

\* "192.168.40.85", the local address of the original capture, and
\* "127.0.0.1", the fallback of get_local_ip
CaptureIp == << <<"1", "9", "2">>, <<"1", "6", "8">>, <<"4", "0">>, <<"8", "5">> >>
LoopbackIp == << <<"1", "2", "7">>, <<"0">>, <<"0">>, <<"1">> >>

\* What get_local_ip may return
LocalIps == {CaptureIp, LoopbackIp}

\* No raw input has been handed in
NoInput == [entry |-> "none"]

Ev(k, s, d, r) == [k |-> k, s |-> s, d |-> d, r |-> r]

-----------------------------------------------------------------------------
(* Frame codec *)

RECURSIVE SumBytes(_)
SumBytes(data) ==
    IF data = <<>> THEN 0
    ELSE (Head(data) % 256) + SumBytes(Tail(data))

\* Mutant of get_check_code: the sum is not reduced to one byte.
get_check_code_NoWrap(data) == SumBytes(data)

get_check_code(data) == SumBytes(data) % 256

\* Mutant of IsByte: bytearray takes any integer.
IsByte_Any(x) == TRUE

\* bytearray([...]) takes integers in range(256) only, else ValueError
IsByte(x) == x \in 0..255

\* The digits of bytes.fromhex, int(text, 16) and int(text), by value (the
\* inputs are lower-case texts)
HexDigits == <<"0", "1", "2", "3", "4", "5", "6", "7",
               "8", "9", "a", "b", "c", "d", "e", "f">>
IsHexDigit(ch) == \E i \in DOMAIN HexDigits : HexDigits[i] = ch
DigitValue(ch) == (CHOOSE i \in DOMAIN HexDigits : HexDigits[i] = ch) - 1

\* Value of a numeral from its digits, most significant first
RECURSIVE Numeral(_, _)
Numeral(digits, base) ==
    IF digits = <<>> THEN 0
    ELSE base * Numeral(SubSeq(digits, 1, Len(digits) - 1), base)
         + DigitValue(digits[Len(digits)])

\* int(text, 16) raises ValueError: no digits, or a character that is no hex
\* digit (a leading '-' is a sign)
IntRaises(text) ==
    LET digits == IF text # <<>> /\ Head(text) = "-" THEN Tail(text) ELSE text
    IN  digits = <<>> \/ \E i \in DOMAIN digits : ~IsHexDigit(digits[i])

\* int(text, 16)
Int16(text) ==
    IF text # <<>> /\ Head(text) = "-"
    THEN 0 - Numeral(Tail(text), 16)
    ELSE Numeral(text, 16)

\* 0 <= value <= 255, the test of main and of interactive_mode
InRange(value) == 0 <= value /\ value <= 255

\* button_shortcuts of main (--button)
button_shortcuts_main ==
       (<<"v", "o", "l", "u", "m", "e", "u", "p">> :> 182)
    @@ (<<"v", "o", "l", "u", "m", "e", "d", "o", "w", "n">> :> 185)
    @@ (<<"v", "o", "l", "u", "m", "e", "_", "u", "p">> :> 182)
    @@ (<<"v", "o", "l", "u", "m", "e", "_", "d", "o", "w", "n">> :> 185)
    @@ (<<"v", "o", "l", "_", "u", "p">> :> 182)
    @@ (<<"v", "o", "l", "_", "d", "o", "w", "n">> :> 185)
    @@ (<<"n", "a", "v", "_", "u", "p">> :> 179)
    @@ (<<"n", "a", "v", "_", "d", "o", "w", "n">> :> 178)
    @@ (<<"n", "a", "v", "_", "r", "i", "g", "h", "t">> :> 177)
    @@ (<<"m", "u", "t", "e">> :> 184)
    @@ (<<"m", "e", "n", "u">> :> 181)
    @@ (<<"b", "a", "c", "k">> :> 180)

\* button_shortcuts of interactive_mode, '<device> <button>' input
button_shortcuts_pair ==
       (<<"v", "o", "l", "u", "m", "e", "u", "p">> :> 182)
    @@ (<<"v", "o", "l", "u", "m", "e", "d", "o", "w", "n">> :> 185)
    @@ (<<"v", "o", "l", "u", "m", "e", "_", "u", "p">> :> 182)
    @@ (<<"v", "o", "l", "u", "m", "e", "_", "d", "o", "w", "n">> :> 185)
    @@ (<<"v", "o", "l", "_", "u", "p">> :> 182)
    @@ (<<"v", "o", "l", "_", "d", "o", "w", "n">> :> 185)
    @@ (<<"n", "a", "v", "_", "u", "p">> :> 179)
    @@ (<<"n", "a", "v", "_", "d", "o", "w", "n">> :> 178)
    @@ (<<"n", "a", "v", "_", "r", "i", "g", "h", "t">> :> 177)
    @@ (<<"m", "u", "t", "e">> :> 184)
    @@ (<<"m", "e", "n", "u">> :> 181)
    @@ (<<"b", "a", "c", "k">> :> 180)

\* button_shortcuts of interactive_mode, single-word input
button_shortcuts_single ==
       (<<"v", "o", "l", "u", "m", "e", "u", "p">> :> 182)
    @@ (<<"v", "o", "l", "u", "m", "e", "d", "o", "w", "n">> :> 185)
    @@ (<<"v", "o", "l", "u", "m", "e", "_", "u", "p">> :> 182)
    @@ (<<"v", "o", "l", "u", "m", "e", "_", "d", "o", "w", "n">> :> 185)
    @@ (<<"v", "o", "l", "_", "u", "p">> :> 182)
    @@ (<<"v", "o", "l", "_", "d", "o", "w", "n">> :> 185)
    @@ (<<"u", "p">> :> 182)
    @@ (<<"d", "o", "w", "n">> :> 185)
    @@ (<<"n", "a", "v", "_", "u", "p">> :> 179)
    @@ (<<"n", "a", "v", "_", "d", "o", "w", "n">> :> 178)
    @@ (<<"n", "a", "v", "_", "r", "i", "g", "h", "t">> :> 177)
    @@ (<<"m", "u", "t", "e">> :> 184)
    @@ (<<"m", "e", "n", "u">> :> 181)
    @@ (<<"b", "a", "c", "k">> :> 180)

\* bytes.fromhex(text) raises ValueError: odd length or a non-hex character
FromHexRaises(text) ==
    \/ Len(text) % 2 # 0
    \/ \E i \in DOMAIN text : ~IsHexDigit(text[i])

\* bytes.fromhex(text): one byte for every two hex digits
FromHex(text) ==
    [i \in 1..(Len(text) \div 2) |->
        16 * DigitValue(text[2 * i - 1]) + DigitValue(text[2 * i])]

\* [int(part) for part in local_ip.split('.')]
IpParts(local_ip) ==
    [i \in DOMAIN local_ip |-> Numeral(local_ip[i], 10)]

\* port.to_bytes(2, byteorder=...) raises OverflowError
PortBytesRaises(port) == port \notin 0..65535

\* Mutant of PortBytes: the little-endian value of line 84 is kept.
PortBytes_LittleEndian(port) == <<port % 256, port \div 256>>

\* port.to_bytes(2, byteorder='big')
PortBytes(port) == <<port \div 256, port % 256>>

\* create_discovery_packet raises: hub_id is no hex text, or the port does
\* not fit two bytes (get_local_ip always yields a dotted quad)
create_discovery_packet_raises(id, local_ip, port) ==
    FromHexRaises(id) \/ PortBytesRaises(port)

\* Mutant of create_discovery_packet: the length byte counts the command byte.
create_discovery_packet_LengthCountsCommand(id, local_ip, port) ==
    LET packet == <<165, 90>> \o <<13>> \o <<195>> \o <<224, 223>>
                    \o FromHex(id) \o IpParts(local_ip) \o PortBytes(port)
    IN  Append(packet, get_check_code(packet))

\* create_discovery_packet: header, length, command, identifier, hub id,
\* local address, port (big-endian: the little-endian value of line 84 is
\* overwritten in line 85), checksum (get_check_code: the value of
\* calculate_checksum in line 89 is overwritten in line 90)
create_discovery_packet(id, local_ip, port) ==
    LET packet == <<165, 90>> \o <<12>> \o <<195>> \o <<224, 223>>
                    \o FromHex(id) \o IpParts(local_ip) \o PortBytes(port)
    IN  Append(packet, get_check_code(packet))

\* Mutant of CommandPacket: the checksum leaves out the two header bytes.
CommandPacket_ChecksumSkipsHeader(device_id, button_code) ==
    LET packet == <<165, 90, 2, 63, device_id, button_code>>
    IN  Append(packet, get_check_code(SubSeq(packet, 3, 6)))

\* bytearray([0xA5, 0x5A, 0x02, 0x3F, device_id, button_code]) + checksum
CommandPacket(device_id, button_code) ==
    LET packet == <<165, 90, 2, 63, device_id, button_code>>
    IN  Append(packet, get_check_code(packet))

\* Mutant of ValidAuthResponse: the length of the response is not tested.
ValidAuthResponse_HeaderOnly(data) ==
    /\ Len(data) >= 2
    /\ SubSeq(data, 1, 2) = MagicHeader

\* len(data) >= 5 and data[0:2] == bytes([0xA5, 0x5A])
ValidAuthResponse(data) ==
    /\ Len(data) >= 5
    /\ SubSeq(data, 1, 2) = MagicHeader

-----------------------------------------------------------------------------
(* Outcomes the environment chooses for the socket calls of an operation *)

\* socket() fails | bind()/listen() fails | all succeed
StartOutcomes == {"socket_error", "bind_error", "ok"}
\* creating the UDP socket fails | sendto() fails | sent
DiscoveryOutcomes == {"build_error", "send_error", "ok"}
\* accept(): a peer connects | socket.timeout | another error
AcceptOutcomes == {"ok", "timeout", "error"}
\* send() fails | recv() times out | recv() fails | recv() returns bytes
ExchangeOutcomes == {"send_error", "timeout", "recv_error", "data"}
\* KeyboardInterrupt raised inside a blocking call
Interrupt == "interrupt"

-----------------------------------------------------------------------------
(* SofaBatonServer *)

\* The session is in the Authenticated state: it holds a peer connection and
\* the auth handshake succeeded on that connection.
InAuthenticatedState == client_sock # None /\ client_sock \in authedOn

\* What an operation finds when it is called.
Snapshot ==
    [op |-> lastOp, server_sock |-> server_sock, client_sock |-> client_sock,
     authenticated |-> authenticated, running |-> running, nio |-> Len(io),
     inAuth |-> InAuthenticatedState]

\* __init__
ObjInit ==
    /\ server_sock = None
    /\ client_sock = None
    /\ authenticated = FALSE
    /\ running = FALSE

\* Nothing has happened yet
RunInit ==
    /\ listening = {}
    /\ nextId = 1
    /\ authedOn = {}
    /\ io = <<>>
    /\ ret = "None"
    /\ lastOp = "__init__"
    /\ failed = FALSE
    /\ prev = Snapshot
    /\ n = 0

\* The hub address is given or empty; port and hub id have their defaults
EnvInit ==
    /\ hub_ip \in HubIps
    /\ hub_id = DefaultHubId
    /\ listen_port = DefaultPort
    /\ input = NoInput
    /\ RunInit

start_server(out) ==
    /\ lastOp' = "start_server"
    /\ UNCHANGED <<client_sock, authenticated, authedOn, config>>
    /\ CASE out = "socket_error" ->
              /\ ret' = "False"
              /\ UNCHANGED <<server_sock, running, listening, nextId, io>>
         [] out = "bind_error" ->
              /\ server_sock' = nextId
              /\ nextId' = nextId + 1
              /\ io' = Append(io, Ev("bind", nextId, <<>>, "error"))
              /\ ret' = "False"
              /\ UNCHANGED <<running, listening>>
         [] out = "ok" ->
              /\ server_sock' = nextId
              /\ nextId' = nextId + 1
              /\ listening' = listening \cup {nextId}
              /\ io' = Append(io, Ev("bind", nextId, <<>>, "ok"))
              /\ running' = TRUE
              /\ ret' = "True"

\* local_ip is what get_local_ip returns: the address the OS routes to the hub
\* from, or the fallback "127.0.0.1"
send_udp_discovery(out, local_ip) ==
    /\ lastOp' = "send_udp_discovery"
    /\ UNCHANGED <<obj, config, listening, nextId, authedOn>>
    /\ IF hub_ip = ""
       THEN ret' = "False" /\ io' = io
       ELSE IF create_discovery_packet_raises(hub_id, local_ip, listen_port)
       THEN \* ValueError or OverflowError, caught by except Exception
            ret' = "False" /\ io' = io
       ELSE LET discovery_packet ==
                    create_discovery_packet(hub_id, local_ip, listen_port)
            IN
            CASE out = "build_error" ->
                   ret' = "False" /\ io' = io
              [] out = "send_error" ->
                   /\ io' = Append(io, Ev("sendto", None, discovery_packet, "error"))
                   /\ ret' = "False"
              [] out = "ok" ->
                   /\ io' = Append(io, Ev("sendto", None, discovery_packet, "ok"))
                   /\ ret' = "True"

wait_for_hub(out) ==
    /\ lastOp' = "wait_for_hub"
    /\ UNCHANGED <<server_sock, authenticated, running, config, listening,
                   authedOn>>
    /\ IF server_sock = None
       THEN \* None.settimeout raises AttributeError, caught by except Exception
            /\ ret' = "False"
            /\ UNCHANGED <<client_sock, nextId, io>>
       ELSE IF server_sock \notin listening
       THEN \* accept() on a socket that is not listening raises OSError
            /\ io' = Append(io, Ev("accept", server_sock, <<>>, "error"))
            /\ ret' = "False"
            /\ UNCHANGED <<client_sock, nextId>>
       ELSE CASE out = "ok" ->
                   /\ client_sock' = nextId
                   /\ nextId' = nextId + 1
                   /\ io' = Append(io, Ev("accept", nextId, <<>>, "ok"))
                   /\ ret' = "True"
              [] out \in {"timeout", "error"} ->
                   /\ io' = Append(io, Ev("accept", server_sock, <<>>, out))
                   /\ ret' = "False"
                   /\ UNCHANGED <<client_sock, nextId>>
              [] out = Interrupt ->
                   /\ io' = Append(io, Ev("accept", server_sock, <<>>, out))
                   /\ ret' = "KeyboardInterrupt"
                   /\ UNCHANGED <<client_sock, nextId>>

handle_authentication(out, data) ==
    /\ lastOp' = "handle_authentication"
    /\ UNCHANGED <<server_sock, client_sock, running, config, listening, nextId>>
    /\ IF client_sock = None
       THEN ret' = "False" /\ UNCHANGED <<authenticated, authedOn, io>>
       ELSE LET sent == Append(io, Ev("send", client_sock, AuthRequest, "ok"))
            IN
            CASE out = "send_error" ->
                   /\ io' = Append(io, Ev("send", client_sock, AuthRequest, "error"))
                   /\ ret' = "False"
                   /\ UNCHANGED <<authenticated, authedOn>>
              [] out = "timeout" ->
                   /\ io' = Append(sent, Ev("recv", client_sock, <<>>, "timeout"))
                   /\ ret' = "False"
                   /\ UNCHANGED <<authenticated, authedOn>>
              [] out = "recv_error" ->
                   /\ io' = Append(sent, Ev("recv", client_sock, <<>>, "error"))
                   /\ ret' = "False"
                   /\ UNCHANGED <<authenticated, authedOn>>
              [] out = Interrupt ->
                   /\ io' = Append(sent, Ev("recv", client_sock, <<>>, out))
                   /\ ret' = "KeyboardInterrupt"
                   /\ UNCHANGED <<authenticated, authedOn>>
              [] out = "data" ->
                   /\ io' = Append(sent, Ev("recv", client_sock, data, "ok"))
                   /\ IF data # <<>> /\ ValidAuthResponse(data)
                      THEN /\ authenticated' = TRUE
                           /\ authedOn' = authedOn \cup {client_sock}
                           /\ ret' = "True"
                      ELSE /\ ret' = "False"
                           /\ UNCHANGED <<authenticated, authedOn>>

\* Mutant of send_command: a timeout of the response read is a failure.
send_command_TimeoutFails(device_id, button_code, out, data) ==
    /\ lastOp' = "send_command"
    /\ UNCHANGED <<obj, config, listening, nextId, authedOn>>
    /\ IF ~authenticated
       THEN ret' = "False" /\ io' = io
       ELSE IF client_sock = None
       THEN ret' = "False" /\ io' = io
       ELSE IF ~(IsByte(device_id) /\ IsByte(button_code))
       THEN \* bytearray([...]) raises ValueError, caught by except Exception
            ret' = "False" /\ io' = io
       ELSE LET packet == CommandPacket(device_id, button_code)
                sent == Append(io, Ev("send", client_sock, packet, "ok"))
            IN
            CASE out = "send_error" ->
                   /\ io' = Append(io, Ev("send", client_sock, packet, "error"))
                   /\ ret' = "False"
              [] out = "timeout" ->
                   /\ io' = Append(sent, Ev("recv", client_sock, <<>>, "timeout"))
                   /\ ret' = "False"
              [] out = "recv_error" ->
                   /\ io' = Append(sent, Ev("recv", client_sock, <<>>, "error"))
                   /\ ret' = "False"
              [] out = Interrupt ->
                   /\ io' = Append(sent, Ev("recv", client_sock, <<>>, out))
                   /\ ret' = "KeyboardInterrupt"
              [] out = "data" ->
                   /\ io' = Append(sent, Ev("recv", client_sock, data, "ok"))
                   /\ ret' = "True"

send_command(device_id, button_code, out, data) ==
    /\ lastOp' = "send_command"
    /\ UNCHANGED <<obj, config, listening, nextId, authedOn>>
    /\ IF ~authenticated
       THEN ret' = "False" /\ io' = io
       ELSE IF client_sock = None
       THEN ret' = "False" /\ io' = io
       ELSE IF ~(IsByte(device_id) /\ IsByte(button_code))
       THEN \* bytearray([...]) raises ValueError, caught by except Exception
            ret' = "False" /\ io' = io
       ELSE LET packet == CommandPacket(device_id, button_code)
                sent == Append(io, Ev("send", client_sock, packet, "ok"))
            IN
            CASE out = "send_error" ->
                   /\ io' = Append(io, Ev("send", client_sock, packet, "error"))
                   /\ ret' = "False"
              [] out = "timeout" ->
                   /\ io' = Append(sent, Ev("recv", client_sock, <<>>, "timeout"))
                   /\ ret' = "True"
              [] out = "recv_error" ->
                   /\ io' = Append(sent, Ev("recv", client_sock, <<>>, "error"))
                   /\ ret' = "False"
              [] out = Interrupt ->
                   /\ io' = Append(sent, Ev("recv", client_sock, <<>>, out))
                   /\ ret' = "KeyboardInterrupt"
              [] out = "data" ->
                   /\ io' = Append(sent, Ev("recv", client_sock, data, "ok"))
                   /\ ret' = "True"

\* send_volume_command(command_type)
send_volume_command(command_type, out, data) ==
    CASE command_type = "up" -> send_command(2, 182, out, data)
      [] command_type = "down" -> send_command(2, 185, out, data)
      [] OTHER ->
           /\ lastOp' = "send_volume_command"
           /\ ret' = "False"
           /\ UNCHANGED <<obj, config, listening, nextId, authedOn, io>>

\* Mutant of stop: the peer socket is closed but the reference is kept.
stop_KeepsClientReference ==
    /\ lastOp' = "stop"
    /\ running' = FALSE
    /\ server_sock' = None
    /\ listening' = listening \ {server_sock}
    /\ io' = io \o (IF client_sock # None
                    THEN <<Ev("close", client_sock, <<>>, "ok")>> ELSE <<>>)
                \o (IF server_sock # None
                    THEN <<Ev("close", server_sock, <<>>, "ok")>> ELSE <<>>)
    /\ ret' = "None"
    /\ UNCHANGED <<client_sock, authenticated, config, nextId, authedOn>>

\* Mutant of stop: the listening socket is not released.
stop_KeepsServerSocket ==
    /\ lastOp' = "stop"
    /\ running' = FALSE
    /\ client_sock' = None
    /\ io' = io \o (IF client_sock # None
                    THEN <<Ev("close", client_sock, <<>>, "ok")>> ELSE <<>>)
    /\ ret' = "None"
    /\ UNCHANGED <<server_sock, listening, authenticated, config, nextId,
                   authedOn>>

stop ==
    /\ lastOp' = "stop"
    /\ running' = FALSE
    /\ client_sock' = None
    /\ server_sock' = None
    /\ listening' = listening \ {server_sock}
    /\ io' = io \o (IF client_sock # None
                    THEN <<Ev("close", client_sock, <<>>, "ok")>> ELSE <<>>)
                \o (IF server_sock # None
                    THEN <<Ev("close", server_sock, <<>>, "ok")>> ELSE <<>>)
    /\ ret' = "None"
    /\ UNCHANGED <<authenticated, config, nextId, authedOn>>

-----------------------------------------------------------------------------
(* main(): the driver, from the creation of the server object on *)

Init ==
    /\ ObjInit
    /\ EnvInit
    /\ pc = "start_server"
    /\ mode \in {"send", "interactive"}
    /\ IF mode = "send"
       THEN arg_device \in Devices /\ arg_button \in Buttons
       ELSE arg_device = None /\ arg_button = None

\* The driver moves on to step `next`; what the operation returned is recorded.
Goto(next) ==
    /\ pc' = next
    /\ failed' = (failed \/ ret' = "False")
    /\ prev' = Snapshot
    /\ UNCHANGED <<mode, arg_device, arg_button, input>>

\* Mutant of MainStartServer: the result of start_server is not tested.
MainStartServer_IgnoresResult ==
    /\ pc = "start_server"
    /\ \E out \in StartOutcomes : start_server(out)
    /\ Goto("send_udp_discovery")
    /\ n' = n

\* Step 1: if not server.start_server(): return
MainStartServer ==
    /\ pc = "start_server"
    /\ \E out \in StartOutcomes : start_server(out)
    /\ Goto(IF ret' = "True" THEN "send_udp_discovery" ELSE "stop")
    /\ n' = n

\* Mutant of MainDiscovery: a failed discovery is tried once more.
MainDiscovery_Retries ==
    /\ pc = "send_udp_discovery"
    /\ \E out \in DiscoveryOutcomes, ip \in LocalIps : send_udp_discovery(out, ip)
    /\ Goto(IF ret' = "True" THEN "wait_for_hub"
            ELSE IF ~failed THEN "send_udp_discovery"
            ELSE "stop")
    /\ n' = n

\* Step 2: if not server.send_udp_discovery(): return
MainDiscovery ==
    /\ pc = "send_udp_discovery"
    /\ \E out \in DiscoveryOutcomes, ip \in LocalIps : send_udp_discovery(out, ip)
    /\ Goto(IF ret' = "True" THEN "wait_for_hub" ELSE "stop")
    /\ n' = n

\* Mutant of MainWaitForHub: accept() has no timeout; unless the hub connects
\* the driver stays in the call.
MainWaitForHub_BlocksForever ==
    /\ pc = "wait_for_hub"
    /\ \E out \in AcceptOutcomes \cup {Interrupt} : wait_for_hub(out)
    /\ Goto(IF ret' = "True" THEN "handle_authentication"
            ELSE IF ret' = "False" THEN "accept"
            ELSE "stop")
    /\ n' = n

\* Mutant of MainWaitForHub: the result of wait_for_hub is not tested.
MainWaitForHub_IgnoresResult ==
    /\ pc = "wait_for_hub"
    /\ \E out \in AcceptOutcomes \cup {Interrupt} : wait_for_hub(out)
    /\ Goto(IF ret' = "KeyboardInterrupt" THEN "stop" ELSE "handle_authentication")
    /\ n' = n

\* Mutant of MainWaitForHub: a failed accept is tried again.
MainWaitForHub_Retries ==
    /\ pc = "wait_for_hub"
    /\ \E out \in AcceptOutcomes \cup {Interrupt} : wait_for_hub(out)
    /\ Goto(IF ret' = "True" THEN "handle_authentication"
            ELSE IF ret' = "False" /\ Len(io') < 4 THEN "wait_for_hub" ELSE "stop")
    /\ n' = n

\* Step 3: if not server.wait_for_hub(): return
MainWaitForHub ==
    /\ pc = "wait_for_hub"
    /\ \E out \in AcceptOutcomes \cup {Interrupt} : wait_for_hub(out)
    /\ Goto(IF ret' = "True" THEN "handle_authentication" ELSE "stop")
    /\ n' = n

\* Mutant of MainAuthentication: a failed handshake is tried once more.
MainAuthentication_Retries ==
    /\ pc = "handle_authentication"
    /\ \E out \in ExchangeOutcomes \cup {Interrupt}, data \in AuthReplies \cup {<<>>} :
          handle_authentication(out, data)
    /\ Goto(IF ret' = "True"
            THEN (IF mode = "send" THEN "send_command" ELSE "interactive_mode")
            ELSE IF ret' = "False" /\ ~failed THEN "handle_authentication"
            ELSE "stop")
    /\ n' = n

\* Mutant of MainAuthentication: the result of the handshake is not tested.
MainAuthentication_IgnoresResult ==
    /\ pc = "handle_authentication"
    /\ \E out \in ExchangeOutcomes \cup {Interrupt}, data \in AuthReplies \cup {<<>>} :
          handle_authentication(out, data)
    /\ Goto(IF ret' = "KeyboardInterrupt" THEN "stop"
            ELSE IF mode = "send" THEN "send_command" ELSE "interactive_mode")
    /\ n' = n

\* Step 4: if server.handle_authentication(): send or interactive; else: print
MainAuthentication ==
    /\ pc = "handle_authentication"
    /\ \E out \in ExchangeOutcomes \cup {Interrupt}, data \in AuthReplies \cup {<<>>} :
          handle_authentication(out, data)
    /\ Goto(IF ret' = "True"
            THEN (IF mode = "send" THEN "send_command" ELSE "interactive_mode")
            ELSE "stop")
    /\ n' = n

\* Step 5: server.send_command(device_id, button_code); the result is not used
MainSendCommand ==
    /\ pc = "send_command"
    /\ \E out \in ExchangeOutcomes \cup {Interrupt}, data \in CmdReplies \cup {<<>>} :
          send_command(arg_device, arg_button, out, data)
    /\ Goto("stop")
    /\ n' = n

\* interactive_mode(): one turn of the loop that sends a command. The result
\* of send_command is not used; a KeyboardInterrupt leaves the loop.
InteractiveCommand ==
    /\ pc = "interactive_mode"
    /\ authenticated
    /\ running /\ client_sock # None
    /\ n < MaxCmds
    /\ \E d \in Devices, b \in Buttons,
          out \in ExchangeOutcomes \cup {Interrupt}, data \in CmdReplies \cup {<<>>} :
          send_command(d, b, out, data)
    /\ Goto(IF ret' = "KeyboardInterrupt" THEN "stop" ELSE "interactive_mode")
    /\ n' = n + 1

\* interactive_mode() returns: not authenticated, the loop condition is false,
\* 'quit' was entered, or input() raised (KeyboardInterrupt, EOFError).
InteractiveExit ==
    /\ pc = "interactive_mode"
    /\ pc' = "stop"
    /\ UNCHANGED <<obj, config, input, listening, nextId, authedOn, io, ret, lastOp,
                   failed, prev, mode, arg_device, arg_button, n>>

\* KeyboardInterrupt between two operations of the try block (the prints,
\* time.sleep): except KeyboardInterrupt, then finally.
MainInterrupt ==
    /\ pc \in {"start_server", "send_udp_discovery", "wait_for_hub",
               "handle_authentication", "send_command"}
    /\ pc' = "stop"
    /\ ret' = "KeyboardInterrupt"
    /\ UNCHANGED <<obj, config, input, listening, nextId, authedOn, io, lastOp,
                   failed, prev, mode, arg_device, arg_button, n>>

\* finally: server.stop()
MainStop ==
    /\ pc = "stop"
    /\ stop
    /\ pc' = "done"
    /\ prev' = Snapshot
    /\ UNCHANGED <<failed, mode, arg_device, arg_button, input, n>>

Next ==
    \/ MainStartServer
    \/ MainDiscovery
    \/ MainWaitForHub
    \/ MainAuthentication
    \/ MainSendCommand
    \/ InteractiveCommand
    \/ InteractiveExit
    \/ MainInterrupt
    \/ MainStop

Spec == Init /\ [][Next]_vars

\* Single-command mode: main() with --button. Every call of the try block
\* returns or raises (sendto after settimeout(5), accept after settimeout(60),
\* send and recv on the peer after settimeout(10) and settimeout(2)), so the
\* driver always takes its next step.
InitSend == Init /\ mode = "send"

NextSend ==
    \/ MainStartServer
    \/ MainDiscovery
    \/ MainWaitForHub
    \/ MainAuthentication
    \/ MainSendCommand
    \/ MainInterrupt
    \/ MainStop

SpecSend == InitSend /\ [][NextSend]_vars /\ WF_vars(NextSend)

-----------------------------------------------------------------------------
(* The object alone: its operations called in any order *)

InitObj ==
    /\ ObjInit
    /\ EnvInit
    /\ pc = "api"
    /\ mode = "api"
    /\ arg_device = None
    /\ arg_button = None

\* What the hub answers and what the caller passes under SpecObj: one value
\* for each branch of the operations.
CallAuthReplies == { <<165, 90, 0, 1, 0>>, <<165, 91, 0, 1, 0>>, <<>> }
CallCmdReplies == { <<165, 90, 2, 63, 0>> }
CallDevice == CHOOSE d \in Devices : d = 2
CallButton == CHOOSE b \in Buttons : b = 182

Call ==
    /\ pc = "api"
    /\ n < MaxCalls
    /\ n' = n + 1
    /\ failed' = (failed \/ ret' = "False")
    /\ prev' = Snapshot
    /\ UNCHANGED <<pc, mode, arg_device, arg_button, input>>

CallStartServer == (\E out \in StartOutcomes : start_server(out)) /\ Call

CallDiscovery ==
    /\ \E out \in DiscoveryOutcomes : send_udp_discovery(out, CaptureIp)
    /\ Call

CallWaitForHub == (\E out \in AcceptOutcomes : wait_for_hub(out)) /\ Call

CallAuthentication ==
    /\ \E out \in ExchangeOutcomes, data \in CallAuthReplies :
          handle_authentication(out, data)
    /\ Call

CallSendCommand ==
    /\ \E out \in ExchangeOutcomes, data \in CallCmdReplies :
          send_command(CallDevice, CallButton, out, data)
    /\ Call

CallStop == stop /\ Call

NextObj ==
    \/ CallStartServer
    \/ CallDiscovery
    \/ CallWaitForHub
    \/ CallAuthentication
    \/ CallSendCommand
    \/ CallStop

SpecObj == InitObj /\ [][NextObj]_vars

-----------------------------------------------------------------------------
(* Raw inputs: the command line as main() gets it, the lines interactive_mode
   reads, and direct calls of send_command with any integers *)

MaxLines == 1
MaxRawCalls == 4

\* Texts a user may type for a device or a button
Txt02 == <<"0", "2">>
TxtB6 == <<"b", "6">>
Txt102 == <<"1", "0", "2">>
Txt1b6 == <<"1", "b", "6">>
TxtMinus1 == <<"-", "1">>
TxtZz == <<"z", "z">>
TxtUp == <<"u", "p">>
TxtMute == <<"m", "u", "t", "e">>
TxtNavUp == <<"n", "a", "v", "_", "u", "p">>
TxtQuit == <<"q", "u", "i", "t">>

\* --device and --button as given (args.button is None when --button is absent)
DeviceTexts == {Txt02, Txt102, TxtMinus1, TxtZz}
ButtonTexts == {TxtB6, Txt1b6, TxtZz, TxtUp, TxtMute, TxtNavUp}

\* The line read by input(), stripped and lower-cased, as its words
Lines ==
    { <<>>, <<TxtQuit>>,
      <<TxtB6>>, <<Txt1b6>>, <<TxtZz>>, <<TxtUp>>, <<TxtMute>>,
      <<Txt02, TxtB6>>, <<Txt02, TxtUp>>, <<Txt02, TxtMute>>, <<Txt02, Txt1b6>>,
      <<Txt102, TxtB6>>, <<TxtMinus1, TxtB6>>, <<TxtZz, TxtB6>>,
      <<Txt02, TxtB6, TxtB6>> }

\* Integers a caller may pass to send_command
RawDevices == {2, 258, -1}
RawButtons == {182, 438, 256}

\* main() is entered with the command line in `input`; or an object has been
\* constructed by a caller
InitRaw ==
    /\ ObjInit
    /\ RunInit
    /\ hub_ip \in HubIps \ {""}
    /\ hub_id = DefaultHubId
    /\ listen_port = DefaultPort
    /\ arg_device = None
    /\ arg_button = None
    /\ \/ /\ pc = "parse_args"
          /\ mode = "unset"
          /\ \E interactive \in BOOLEAN, has_button \in BOOLEAN,
                device \in DeviceTexts, button \in ButtonTexts :
                input = [entry |-> "cli", interactive |-> interactive,
                         has_button |-> has_button, device |-> device,
                         button |-> IF has_button THEN button ELSE <<>>]
       \/ /\ pc = "raw"
          /\ mode = "api"
          /\ input = NoInput

\* main(), lines 422-470: the arguments are parsed; parser.error exits
MainParseArgs ==
    /\ pc = "parse_args"
    /\ UNCHANGED <<obj, config, input, listening, nextId, authedOn, io, lastOp,
                   failed, prev, n>>
    /\ IF input.interactive
       THEN /\ mode' = "interactive"
            /\ arg_device' = None /\ arg_button' = None
            /\ pc' = "start_server" /\ ret' = ret
       ELSE IF ~input.has_button
       THEN \* parser.error("Must specify --button or --interactive")
            /\ pc' = "done" /\ ret' = "SystemExit"
            /\ UNCHANGED <<mode, arg_device, arg_button>>
       ELSE IF \/ IntRaises(input.device)
               \/ ~InRange(Int16(input.device))
       THEN \* parser.error("device must be valid hex value ...")
            /\ pc' = "done" /\ ret' = "SystemExit"
            /\ UNCHANGED <<mode, arg_device, arg_button>>
       ELSE IF input.button \in DOMAIN button_shortcuts_main
       THEN /\ mode' = "send"
            /\ arg_device' = Int16(input.device)
            /\ arg_button' = button_shortcuts_main[input.button]
            /\ pc' = "start_server" /\ ret' = ret
       ELSE IF \/ IntRaises(input.button)
               \/ ~InRange(Int16(input.button))
       THEN \* parser.error("button must be valid hex value ...")
            /\ pc' = "done" /\ ret' = "SystemExit"
            /\ arg_device' = Int16(input.device)
            /\ UNCHANGED <<mode, arg_button>>
       ELSE /\ mode' = "send"
            /\ arg_device' = Int16(input.device)
            /\ arg_button' = Int16(input.button)
            /\ pc' = "start_server" /\ ret' = ret

\* interactive_mode(), lines 276-324: what a line asks for. kind is "quit",
\* "send" (send_command is called with device and button) or "message" (a
\* message is printed and nothing is called).
ParseLine(words) ==
    LET Send(d, b) == [kind |-> "send", device |-> d, button |-> b]
        Message == [kind |-> "message", device |-> None, button |-> None]
    IN
    IF words = <<TxtQuit>> THEN [kind |-> "quit", device |-> None, button |-> None]
    ELSE IF Len(words) > 1
    THEN IF Len(words) # 2 THEN Message
         ELSE IF IntRaises(words[1]) THEN Message
         ELSE IF words[2] \in DOMAIN button_shortcuts_pair
         THEN IF InRange(Int16(words[1])) /\ InRange(button_shortcuts_pair[words[2]])
              THEN Send(Int16(words[1]), button_shortcuts_pair[words[2]])
              ELSE Message
         ELSE IF IntRaises(words[2]) THEN Message
         ELSE IF InRange(Int16(words[1])) /\ InRange(Int16(words[2]))
              THEN Send(Int16(words[1]), Int16(words[2]))
              ELSE Message
    ELSE LET cmd == IF words = <<>> THEN <<>> ELSE words[1]
         IN  IF cmd \in DOMAIN button_shortcuts_single
             THEN Send(2, button_shortcuts_single[cmd])
             ELSE IF IntRaises(cmd) THEN Message
             ELSE IF InRange(Int16(cmd)) THEN Send(2, Int16(cmd))
             ELSE Message

\* interactive_mode(): one turn of the loop on the line read. The result of
\* send_command is not used; 'quit' and a KeyboardInterrupt leave the loop.
InteractiveLine ==
    /\ pc = "interactive_mode"
    /\ authenticated
    /\ running /\ client_sock # None
    /\ n < MaxLines
    /\ n' = n + 1
    /\ \E words \in Lines :
          LET request == ParseLine(words)
          IN  /\ input' = [entry |-> "line", words |-> words]
              /\ arg_device' = request.device
              /\ arg_button' = request.button
              /\ IF request.kind = "send"
                 THEN /\ \E out \in ExchangeOutcomes \cup {Interrupt},
                            data \in CmdReplies \cup {<<>>} :
                            send_command(request.device, request.button, out, data)
                      /\ pc' = IF ret' = "KeyboardInterrupt"
                               THEN "stop" ELSE "interactive_mode"
                 ELSE /\ pc' = IF request.kind = "quit"
                               THEN "stop" ELSE "interactive_mode"
                      /\ UNCHANGED <<obj, config, listening, nextId, authedOn,
                                     io, ret, lastOp>>
    /\ failed' = (failed \/ ret' = "False")
    /\ prev' = Snapshot
    /\ mode' = mode

\* A caller calls a method of the object
RawCall ==
    /\ pc = "raw"
    /\ n < MaxRawCalls
    /\ n' = n + 1
    /\ failed' = (failed \/ ret' = "False")
    /\ prev' = Snapshot
    /\ UNCHANGED <<pc, mode>>

RawStartServer ==
    /\ \E out \in StartOutcomes : start_server(out)
    /\ RawCall
    /\ UNCHANGED <<input, arg_device, arg_button>>

RawWaitForHub ==
    /\ \E out \in AcceptOutcomes : wait_for_hub(out)
    /\ RawCall
    /\ UNCHANGED <<input, arg_device, arg_button>>

RawAuthentication ==
    /\ \E out \in ExchangeOutcomes, data \in CallAuthReplies :
          handle_authentication(out, data)
    /\ RawCall
    /\ UNCHANGED <<input, arg_device, arg_button>>

\* send_command(device_id, button_code) with any two integers
RawSendCommand ==
    /\ \E device_id \in RawDevices, button_code \in RawButtons,
          out \in ExchangeOutcomes, data \in CallCmdReplies :
          /\ send_command(device_id, button_code, out, data)
          /\ input' = [entry |-> "send_command", device |-> device_id,
                       button |-> button_code]
          /\ arg_device' = device_id
          /\ arg_button' = button_code
    /\ RawCall

\* send_volume_command(command_type)
RawSendVolume ==
    /\ \E command_type \in {"up", "down", "mute"},
          out \in ExchangeOutcomes, data \in CallCmdReplies :
          /\ send_volume_command(command_type, out, data)
          /\ input' = [entry |-> "send_volume_command",
                       command_type |-> command_type]
          /\ arg_device' = IF command_type \in {"up", "down"} THEN 2 ELSE None
          /\ arg_button' = CASE command_type = "up" -> 182
                             [] command_type = "down" -> 185
                             [] OTHER -> None
    /\ RawCall

NextRaw ==
    \/ MainParseArgs
    \/ MainStartServer
    \/ MainDiscovery
    \/ MainWaitForHub
    \/ MainAuthentication
    \/ MainSendCommand
    \/ InteractiveLine
    \/ InteractiveExit
    \/ MainInterrupt
    \/ MainStop
    \/ RawStartServer
    \/ RawWaitForHub
    \/ RawAuthentication
    \/ RawSendCommand
    \/ RawSendVolume

SpecRaw == InitRaw /\ [][NextRaw]_vars

-----------------------------------------------------------------------------
(* The codec on its own: the pure functions applied to given inputs *)

\* Byte values, and byte sequences of up to MaxLen bytes
MaxLen == 3
ByteValues == {1, 128, 255}
ByteSeqs == UNION {[1..len -> ByteValues] : len \in 0..MaxLen}

\* Hub ids a caller may pass (hub_id is any str): the default, another 4-byte
\* id, "0386", "038", "03862a2g" and "03862a23ff"
HubIdTexts ==
    { DefaultHubId,
      <<"f", "f", "0", "0", "1", "2", "e", "f">>,
      <<"0", "3", "8", "6">>,
      <<"0", "3", "8">>,
      <<"0", "3", "8", "6", "2", "a", "2", "g">>,
      <<"0", "3", "8", "6", "2", "a", "2", "3", "f", "f">> }

\* Listening ports a caller may pass (listen_port is any int)
Ports == {DefaultPort, DefaultPort + 1, 513, 65535, 65536, -1}

\* SofaBatonServer(listen_port, hub_ip, hub_id)
InitCodec ==
    /\ ObjInit
    /\ RunInit
    /\ hub_ip \in HubIps \ {""}
    /\ hub_id \in HubIdTexts
    /\ listen_port \in Ports
    /\ input = NoInput
    /\ pc = "codec"
    /\ mode = "api"
    /\ arg_device = None
    /\ arg_button = None

\* A pure function was applied: the object and the network are untouched
Applied(op) ==
    /\ lastOp' = op
    /\ prev' = Snapshot
    /\ UNCHANGED <<obj, config, listening, nextId, authedOn, io, failed,
                   pc, mode, arg_device, arg_button, n>>

\* get_check_code(data)
ApplyCheckCode ==
    /\ pc = "codec"
    /\ \E data \in ByteSeqs :
          /\ input' = [entry |-> "get_check_code", data |-> data]
          /\ ret' = get_check_code(data)
    /\ Applied("get_check_code")

\* create_discovery_packet(), with what get_local_ip returned
ApplyDiscoveryPacket ==
    /\ pc = "codec"
    /\ \E local_ip \in LocalIps :
          /\ input' = [entry |-> "create_discovery_packet", local_ip |-> local_ip]
          /\ ret' = IF create_discovery_packet_raises(hub_id, local_ip, listen_port)
                    THEN [raised |-> TRUE, packet |-> <<>>]
                    ELSE [raised |-> FALSE,
                          packet |-> create_discovery_packet(hub_id, local_ip, listen_port)]
    /\ Applied("create_discovery_packet")

NextCodec ==
    \/ ApplyCheckCode
    \/ ApplyDiscoveryPacket

SpecCodec == InitCodec /\ [][NextCodec]_vars

-----------------------------------------------------------------------------
(* Reading the history of socket calls *)

\* Positions of the calls of kind k
Calls(k) == {i \in DOMAIN io : io[i].k = k}

\* The calls that touch the network: everything but close()
IsNetCall(e) == e.k \in {"bind", "sendto", "accept", "send", "recv"}
NetCalls(log) == SelectSeq(log, IsNetCall)

\* The calls the last operation made
LastCalls == SubSeq(io, prev.nio + 1, Len(io))

\* Socket id has been closed
Closed(id) == \E i \in Calls("close") : io[i].s = id

\* An operation ran in this step (and not only the driver's control moved)
OperationRan == n' # n \/ lastOp' # lastOp \/ Len(io') # Len(io)

-----------------------------------------------------------------------------
(* Claims *)

\* C1: send_command called in a session state other than Authenticated fails
\* and makes no socket call: nothing is written, no read is attempted.
C1_SendCommandOutsideAuthenticated ==
    (lastOp = "send_command" /\ ~prev.inAuth)
        => (ret = "False" /\ Len(io) = prev.nio)

\* C2: whenever the driver has exited, stop() was the last operation, both
\* server_sock and client_sock are None, and every socket the session created
\* has been closed.
C2_DriverExitReleasesSockets ==
    pc = "done" =>
        /\ lastOp = "stop"
        /\ server_sock = None
        /\ client_sock = None
        /\ \A id \in 1..(nextId - 1) : Closed(id)

\* C2 witness: the driver has exited after a KeyboardInterrupt in interactive
\* mode, with a listening socket and a peer socket created before.
C2_Witness ==
    /\ pc = "done"
    /\ mode = "interactive"
    /\ nextId = 3
    /\ \E i \in DOMAIN io : io[i].r = Interrupt /\ io[i].k = "recv"
    /\ Cardinality(Calls("close")) = 2

\* C3: every discovery datagram in the history comes after a bind/listen
\* that succeeded, on a socket not closed in between; so when start_server
\* fails no datagram is sent.
C3_DiscoveryAfterListening ==
    \A i \in Calls("sendto") :
        \E j \in 1..(i - 1) :
            /\ io[j].k = "bind" /\ io[j].r = "ok"
            /\ \A c \in (j + 1)..(i - 1) :
                  ~(io[c].k = "close" /\ io[c].s = io[j].s)

\* C3 witness: a discovery datagram has been sent.
C3_Witness ==
    /\ Calls("sendto") # {}
    /\ pc = "wait_for_hub"

\* C4: once an operation of the session has failed, no later step makes a
\* network call and no later operation succeeds.
C4_FailureIsTerminal ==
    [][failed =>
          /\ Len(NetCalls(io')) = Len(NetCalls(io))
          /\ (OperationRan => ret' # "True")]_vars

\* The calls the auth handshake may make, in order
IsAuthRequestSend(e, sock) == e.k = "send" /\ e.d = AuthRequest /\ e.s = sock

\* The auth handshake is never repeated in a run
NoAuthRetry ==
    /\ Cardinality({i \in Calls("send") : io[i].d = AuthRequest}) <= 1
    /\ (~authenticated => Cardinality(Calls("recv")) <= 1)

\* C5 as stated: handle_authentication sends exactly one AuthRequest on the
\* accepted connection, then makes exactly one read; a failure leaves the
\* session not authenticated; nothing is retried.
C5_OneRequestOneRead ==
    /\ NoAuthRetry
    /\ lastOp = "handle_authentication" =>
          /\ Len(LastCalls) = 2
          /\ IsAuthRequestSend(LastCalls[1], prev.client_sock)
          /\ LastCalls[2].k = "recv"
          /\ (ret = "False" => ~authenticated)

\* C5 amended: handle_authentication sends exactly one AuthRequest on the
\* accepted connection before any read; unless that send raises, exactly one
\* read follows, and when it raises no read is made. On a send error, a
\* timeout, a read error, an empty read or a malformed response the operation
\* returns False with the session not authenticated; nothing is retried.
C5_OneRequestThenOneRead ==
    /\ NoAuthRetry
    /\ lastOp = "handle_authentication" =>
          /\ Len(LastCalls) \in {1, 2}
          /\ IsAuthRequestSend(LastCalls[1], prev.client_sock)
          /\ (Len(LastCalls) = 1) <=> (LastCalls[1].r = "error")
          /\ Len(LastCalls) = 2 => LastCalls[2].k = "recv"
          /\ ( \/ Len(LastCalls) = 1
               \/ LastCalls[Len(LastCalls)].r \in {"timeout", "error"}
               \/ LastCalls[Len(LastCalls)].d = <<>>
               \/ Len(LastCalls[Len(LastCalls)].d) < 5
               \/ LastCalls[Len(LastCalls)].d[1] # 165
               \/ LastCalls[Len(LastCalls)].d[2] # 90 )
             => (ret # "True" /\ ~authenticated)
          /\ (ret = "False" => ~authenticated)

\* C5 witness: the handshake has failed on a timeout of its one read.
C5_Witness ==
    /\ lastOp = "handle_authentication"
    /\ ret = "False"
    /\ Len(LastCalls) = 2
    /\ LastCalls[2].r = "timeout"
    /\ pc = "stop"

\* The first read of the run: in the driver, the read of the auth handshake
FirstRecv == CHOOSE i \in Calls("recv") : \A j \in Calls("recv") : i <= j

\* C6: the session is authenticated if and only if the auth read returned at
\* least 5 bytes of which the first two are A5 5A; nothing else in the bytes
\* read decides it.
C6_AuthenticatedIffHeader ==
    authenticated <=>
        /\ Calls("recv") # {}
        /\ io[FirstRecv].r = "ok"
        /\ Len(io[FirstRecv].d) >= 5
        /\ io[FirstRecv].d[1] = 165
        /\ io[FirstRecv].d[2] = 90

\* C6 witness: authenticated on a 6-byte reply that is no well-formed frame
\* beyond its header.
C6_Witness ==
    /\ authenticated
    /\ Calls("recv") # {}
    /\ io[FirstRecv].d = <<165, 90, 9, 9, 9, 9>>

\* C7: stop() returns normally from every state and leaves running = False,
\* client_sock = None, server_sock = None, having closed exactly the sockets
\* the object held; a stop() right after a stop() changes nothing and closes
\* nothing; no socket is ever closed twice.
C7_StopIdempotent ==
    /\ lastOp = "stop" =>
          /\ ret = "None"
          /\ ~running
          /\ client_sock = None
          /\ server_sock = None
          /\ {LastCalls[i].s : i \in DOMAIN LastCalls}
                = {prev.client_sock, prev.server_sock} \ {None}
          /\ \A i \in DOMAIN LastCalls : LastCalls[i].k = "close"
          /\ prev.op = "stop" =>
                /\ Len(io) = prev.nio
                /\ ~prev.running
                /\ prev.client_sock = None
                /\ prev.server_sock = None
                /\ authenticated = prev.authenticated
    /\ \A i, j \in Calls("close") : io[i].s = io[j].s => i = j

\* C7 witness: stop() called twice in a row on a session that held both a
\* listening socket and a peer connection.
C7_Witness ==
    /\ lastOp = "stop"
    /\ prev.op = "stop"
    /\ Cardinality(Calls("close")) = 2

\* bytes A5 5A 02 3F d b c with c the sum of the six bytes before it mod 256
IsCommandFrame(d) ==
    /\ Len(d) = 7
    /\ SubSeq(d, 1, 4) = <<165, 90, 2, 63>>
    /\ d[5] \in 0..255 /\ d[6] \in 0..255
    /\ d[7] = (165 + 90 + 2 + 63 + d[5] + d[6]) % 256

\* C8: in the Authenticated state send_command sends exactly one command
\* frame and then makes at most one read; when that read times out it returns
\* True, the session is still Authenticated on the same connection, and the
\* condition of the interactive loop (running and client_sock) still holds.
C8_CommandTimeoutIsSuccess ==
    (lastOp = "send_command" /\ prev.inAuth) =>
        /\ Len(LastCalls) \in {1, 2}
        /\ LastCalls[1].k = "send"
        /\ LastCalls[1].s = prev.client_sock
        /\ IsCommandFrame(LastCalls[1].d)
        /\ Len(LastCalls) = 2 => LastCalls[2].k = "recv"
        /\ (Len(LastCalls) = 2 /\ LastCalls[2].r = "timeout") =>
              /\ ret = "True"
              /\ InAuthenticatedState
              /\ authenticated
              /\ client_sock = prev.client_sock
              /\ running /\ client_sock # None

\* C8 witness: a second command has been sent after the read of the first
\* one timed out.
C8_Witness ==
    /\ lastOp = "send_command"
    /\ Cardinality({i \in Calls("send") : IsCommandFrame(io[i].d)}) = 2
    /\ \E i \in Calls("recv") :
          /\ io[i].r = "timeout"
          /\ i < Len(io) - 1
          /\ IsCommandFrame(io[i - 1].d)

\* C9: when accept() has timed out, wait_for_hub has returned False, the
\* session holds no peer connection and is not authenticated, the driver is in
\* teardown, and nothing has been sent to or read from a peer.
C9_AcceptTimeout ==
    (\E i \in Calls("accept") : io[i].r = "timeout") =>
        /\ lastOp = "wait_for_hub" => ret = "False"
        /\ client_sock = None
        /\ ~authenticated
        /\ pc \in {"stop", "done"}
        /\ Calls("send") = {}
        /\ Calls("recv") = {}

\* C9 witness: the driver has exited after an accept timeout.
C9_Witness ==
    /\ \E i \in Calls("accept") : io[i].r = "timeout"
    /\ pc = "done"

\* C10: in a run of the driver accept() is called at most once, the peer
\* connection held is the one that accept returned, and an operation that
\* finds a peer connection held leaves that one or (stop) none.
C10_SinglePeer ==
    /\ Cardinality(Calls("accept")) <= 1
    /\ client_sock # None =>
          \E i \in Calls("accept") : io[i].r = "ok" /\ io[i].s = client_sock
    /\ prev.client_sock # None => client_sock \in {prev.client_sock, None}

\* C10 witness: two commands have been sent on the one accepted connection.
C10_Witness ==
    /\ Cardinality(Calls("accept")) = 1
    /\ client_sock # None
    /\ Cardinality({i \in Calls("send") : io[i].s = client_sock}) = 3

\* A value that does not fit one byte
OutOfRange(value) == value < 0 \/ value > 255

\* The text is a number, and the number does not fit one byte
TextOutOfRange(text) == ~IntRaises(text) /\ OutOfRange(Int16(text))

\* C11: a device id or button code outside 0..255 never reaches the
\* connection. A direct send_command with such a value returns False without
\* a socket call; a command line with such a value ends in parser.error
\* before anything is opened; an interactive line with such a value makes no
\* socket call; and every frame ever sent consists of bytes.
C11_OutOfRangeRejected ==
    /\ (input.entry = "send_command" /\ lastOp = "send_command"
          /\ (OutOfRange(input.device) \/ OutOfRange(input.button)))
        => (ret = "False" /\ Len(io) = prev.nio)
    /\ (input.entry = "cli" /\ pc # "parse_args"
          /\ ~input.interactive /\ input.has_button
          /\ (TextOutOfRange(input.device) \/ TextOutOfRange(input.button)))
        => (pc = "done" /\ ret = "SystemExit" /\ io = <<>>)
    /\ (input.entry = "line" /\ pc = "interactive_mode"
          /\ \E i \in DOMAIN input.words : TextOutOfRange(input.words[i]))
        => Len(io) = prev.nio
    /\ \A i \in Calls("send") :
          \A j \in DOMAIN io[i].d : io[i].d[j] \in 0..255

\* C11 witness: in the Authenticated state send_command(0x102, 0xB6) has
\* returned False and nothing was written.
C11_Witness ==
    /\ input.entry = "send_command"
    /\ lastOp = "send_command"
    /\ prev.inAuth
    /\ input.device = 258 /\ input.button = 182
    /\ ret = "False"
    /\ Len(io) = prev.nio

\* C12: at most one discovery datagram is transmitted in a session; a
\* discovery that did not get its datagram out returns False and is not
\* tried again; and no accept, send or read is made unless a discovery
\* datagram was sent successfully before.
C12_DiscoveryOneShot ==
    /\ Cardinality(Calls("sendto")) <= 1
    /\ (lastOp = "send_udp_discovery"
          /\ \A i \in DOMAIN LastCalls : LastCalls[i].r # "ok")
        => (ret = "False" /\ pc = "stop")
    /\ \A i \in Calls("accept") \cup Calls("send") \cup Calls("recv") :
          \E j \in 1..(i - 1) : io[j].k = "sendto" /\ io[j].r = "ok"

\* C12 witness: sendto() has failed, the driver is on its way to stop() after
\* one attempt.
C12_Witness ==
    /\ lastOp = "send_udp_discovery"
    /\ Len(LastCalls) = 1
    /\ LastCalls[1].k = "sendto" /\ LastCalls[1].r = "error"
    /\ ret = "False"
    /\ pc = "stop"

\* The operation that may run after operation `op` returned `result`
LifecycleOrder(op, result, next) ==
    CASE next = "start_server" -> op = "__init__"
      [] next = "send_udp_discovery" -> op = "start_server" /\ result = "True"
      [] next = "wait_for_hub" -> op = "send_udp_discovery" /\ result = "True"
      [] next = "handle_authentication" -> op = "wait_for_hub" /\ result = "True"
      [] next = "send_command" ->
            \/ op = "handle_authentication" /\ result = "True"
            \/ op = "send_command" /\ mode = "interactive"
      [] next = "stop" -> op # "stop"
      [] OTHER -> FALSE

\* C13: the driver runs start_server, send_udp_discovery, wait_for_hub and
\* handle_authentication at most once each, in this order, each right after
\* the one before it returned True; a command is sent only after
\* handle_authentication returned True (in interactive mode also after a
\* command); stop() runs once, nothing runs after it, and the driver exits
\* only through it.
C13_LifecycleOnceInOrder ==
    [][/\ OperationRan => LifecycleOrder(lastOp, ret, lastOp')
       /\ pc' = "done" => lastOp' = "stop"]_vars

\* C13 witness: a single-command run went through all four steps, sent its
\* command and was torn down.
C13_Witness ==
    /\ pc = "done"
    /\ mode = "send"
    /\ lastOp = "stop"
    /\ prev.op = "send_command"
    /\ Cardinality(Calls("bind")) = 1
    /\ Cardinality(Calls("sendto")) = 1
    /\ Cardinality(Calls("accept")) = 1
    /\ Cardinality(Calls("send")) = 2

\* The names any entry point takes as a shortcut, and the code of a name
ShortcutTables ==
    {button_shortcuts_main, button_shortcuts_pair, button_shortcuts_single}
ShortcutNames == UNION {DOMAIN table : table \in ShortcutTables}
ShortcutCode(name) ==
    CHOOSE code \in 0..255 :
        \E table \in ShortcutTables : name \in DOMAIN table /\ table[name] = code

\* C19: a name that is a shortcut at any entry point is taken, with its one
\* code, at every entry point: by --button, by a single-word line and by a
\* '<device> <button>' line.
C19_OneCatalog ==
    /\ (input.entry = "cli" /\ pc # "parse_args"
          /\ ~input.interactive /\ input.has_button
          /\ ~IntRaises(input.device) /\ InRange(Int16(input.device))
          /\ input.button \in ShortcutNames)
        => (mode = "send" /\ arg_button = ShortcutCode(input.button))
    /\ (input.entry = "line" /\ Len(input.words) = 1
          /\ input.words[1] \in ShortcutNames)
        => (arg_device = 2 /\ arg_button = ShortcutCode(input.words[1]))
    /\ (input.entry = "line" /\ Len(input.words) = 2
          /\ ~IntRaises(input.words[1]) /\ InRange(Int16(input.words[1]))
          /\ input.words[2] \in ShortcutNames)
        => (arg_device = Int16(input.words[1])
            /\ arg_button = ShortcutCode(input.words[2]))

\* C20: whenever authenticated is True the object holds a peer connection,
\* and it is the connection the valid auth response was read on.
C20_AuthenticatedMeansAuthedPeer ==
    authenticated => (client_sock # None /\ client_sock \in authedOn)

\* send_command has just written a frame
CommandSent ==
    /\ lastOp = "send_command"
    /\ Len(io) > prev.nio
    /\ io[prev.nio + 1].k = "send"

\* C14: the frame send_command writes for device d and button b is the 7
\* bytes A5 5A 02 3F d b c with c = (A5 + 5A + 02 + 3F + d + b) mod 256;
\* (02, B6) gives A5 5A 02 3F 02 B6 F8 and (02, B9) gives A5 5A 02 3F 02 B9 FB,
\* also through send_volume_command("up") and ("down").
C14_CommandFrame ==
    CommandSent =>
        LET frame == io[prev.nio + 1].d
        IN  /\ arg_device \in 0..255
            /\ arg_button \in 0..255
            /\ Len(frame) = 7
            /\ frame = <<165, 90, 2, 63, arg_device, arg_button,
                         (165 + 90 + 2 + 63 + arg_device + arg_button) % 256>>
            /\ (arg_device = 2 /\ arg_button = 182)
                  => frame = <<165, 90, 2, 63, 2, 182, 248>>
            /\ (arg_device = 2 /\ arg_button = 185)
                  => frame = <<165, 90, 2, 63, 2, 185, 251>>
            /\ (input.entry = "send_volume_command" /\ input.command_type = "up")
                  => frame = <<165, 90, 2, 63, 2, 182, 248>>
            /\ (input.entry = "send_volume_command" /\ input.command_type = "down")
                  => frame = <<165, 90, 2, 63, 2, 185, 251>>

\* C14 witness: send_volume_command("down") has written A5 5A 02 3F 02 B9 FB.
C14_Witness ==
    /\ CommandSent
    /\ input.entry = "send_volume_command"
    /\ input.command_type = "down"
    /\ io[prev.nio + 1].d = <<165, 90, 2, 63, 2, 185, 251>>

\* The discovery packet has been built (or building it raised)
DiscoveryApplied == lastOp = "create_discovery_packet" /\ pc = "codec"

\* C15: create_discovery_packet yields exactly 17 bytes for every hub id,
\* local address and port the caller supplies; and with another port only the
\* two port bytes (the 13th and 14th after the two header bytes) and the
\* checksum byte differ.
C15_AlwaysSeventeenBytes ==
    DiscoveryApplied =>
        /\ ~ret.raised
        /\ Len(ret.packet) = 17
        /\ \A port \in Ports :
              LET other == create_discovery_packet(hub_id, input.local_ip, port)
              IN  /\ Len(other) = 17
                  /\ \A i \in 1..17 :
                        other[i] # ret.packet[i] => i \in {15, 16, 17}

RECURSIVE SumAt(_, _)
SumAt(b, S) ==
    IF S = {} THEN 0
    ELSE LET i == CHOOSE j \in S : TRUE
         IN  b[i] + SumAt(b, S \ {i})

\* C17: get_check_code(b) is the sum of the bytes of b mod 256, and every
\* permutation of b has the same check code.
C17_CheckCodeIsSumMod256 ==
    (lastOp = "get_check_code" /\ pc = "codec") =>
        LET b == input.data
        IN  /\ ret = SumAt(b, DOMAIN b) % 256
            /\ \A perm \in Permutations(DOMAIN b) :
                  get_check_code([i \in DOMAIN b |-> b[perm[i]]]) = ret

\* C17 witness: the check code of FF 80 FF, whose sum 0x27E exceeds one byte.
C17_Witness ==
    /\ lastOp = "get_check_code"
    /\ pc = "codec"
    /\ input.data = <<255, 128, 255>>
    /\ ret = 126

\* C18 as stated: the length byte, 0x0C, is the number of bytes from the
\* command byte through the end of the IP+port payload, checksum excluded.
C18_LengthCountsFromCommand ==
    (DiscoveryApplied /\ ~ret.raised) =>
        /\ ret.packet[3] = 12
        /\ ret.packet[3] = Len(SubSeq(ret.packet, 4, Len(ret.packet) - 1))

\* C18 amended: the length byte is always 0x0C; it is the number of bytes
\* after the command byte through the end of the IP+port payload, checksum
\* excluded, exactly when the hub id has 4 bytes.
C18_LengthCountsAfterCommand ==
    (DiscoveryApplied /\ ~ret.raised) =>
        /\ ret.packet[3] = 12
        /\ ret.packet[4] = 195
        /\ (Len(hub_id) = 8)
              <=> (ret.packet[3] = Len(SubSeq(ret.packet, 5, Len(ret.packet) - 1)))

\* C18 witness: a 17-byte discovery packet for a 4-byte hub id other than
\* the default.
C18_Witness ==
    /\ DiscoveryApplied
    /\ ~ret.raised
    /\ hub_id # DefaultHubId
    /\ Len(hub_id) = 8
    /\ Len(ret.packet) = 17
    /\ ret.packet[3] = 12

\* C21: in single-command mode every run of the driver eventually ends, after
\* stop(), with both sockets released and every socket it created closed,
\* whatever the hub does.
C21_SingleCommandTerminatesClosed ==
    <>(/\ pc = "done"
       /\ lastOp = "stop"
       /\ server_sock = None
       /\ client_sock = None
       /\ \A id \in 1..(nextId - 1) : Closed(id))

\* C21 witness: the hub connected and stayed silent; the auth read timed out
\* and the single-command run has ended with both sockets released.
C21_Witness ==
    /\ mode = "send"
    /\ pc = "done"
    /\ server_sock = None /\ client_sock = None
    /\ prev.op = "handle_authentication"
    /\ \E i \in Calls("recv") : io[i].r = "timeout"
    /\ Cardinality(Calls("close")) = 2

=============================================================================
